---- MODULE Spec2Model ----
(***************************************************************************)
(* The map viewport data-synchronisation controller of the charging        *)
(* stations page (ChargingStationsAlbaniaPage) and the merge of first-     *)
(* party stations into the third-party feature list                        *)
(* (services/chargingStations.ts).                                         *)
(*                                                                         *)
(* The page is single threaded: every action below is one event-loop turn  *)
(* (a UI handler with the effects React runs after it, a timer callback,   *)
(* or the settling of a sub-fetch together with the continuation of the    *)
(* awaiting loadStations call that the settling releases).                 *)
(*                                                                         *)
(* Encodings.  A nullable value is a sequence of length 0 (null) or 1.     *)
(* A nullable positive number (timer id, controller, Date) is 0 for null.  *)
(* A timer handle is opaque and only compared for equality: setTimeout     *)
(* returns the least positive integer that no pending timer has.           *)
(* Coordinates are integers in units of 1e-7 degree, so that toFixed(6)    *)
(* has something to round.  A string id is the sequence of its char codes. *)
(***************************************************************************)
EXTENDS Integers, Sequences, FiniteSets

\* ------------------------------------------------------------------ bounds

\* Cap on the number of loadStations calls (the request token is unbounded).
MaxLoads == 3

\* Cap on the length of the first-party collection given to the merge.
MaxCustom == 2

\* Cap on the number of presses of the "locate me" button.
MaxLocates == 2

\* ------------------------------------------------------- nullable values

None == << >>
Some(x) == << x >>

\* ------------------------------------------------------------- viewports

\* An L.LatLngBounds: its north-east and south-west corners.
LatLngBounds(neLat, neLng, swLat, swLng) ==
    [neLat |-> neLat, neLng |-> neLng, swLat |-> swLat, swLng |-> swLng]

\* Two viewports the map can show; the first has a seventh decimal digit.
ViewA == LatLngBounds(420000004, 210000000, 400000000, 190000006)
ViewB == LatLngBounds(415000000, 200000000, 410000000, 195000000)
Viewports == {ViewA, ViewB}

\* Number(x.toFixed(6)): x rounded to six decimals, ties away from zero.
ToFixed6(x) ==
    IF x >= 0 THEN ((x + 5) \div 10) * 10 ELSE 0 - (((0 - x) + 5) \div 10) * 10

\* The BoundsTuple [topLat, leftLng, bottomLat, rightLng] of nextContext.
BoundsTupleOf(b) ==
    << ToFixed6(b.neLat), ToFixed6(b.swLng), ToFixed6(b.swLat), ToFixed6(b.neLng) >>

\* boundsFromTuple: null for a null tuple, else latLngBounds(sw, ne).
boundsFromTuple(tuple) ==
    IF tuple = None
    THEN None
    ELSE LET t == tuple[1]
             topLat == t[1]
             leftLng == t[2]
             bottomLat == t[3]
             rightLng == t[4]
         IN Some(LatLngBounds(topLat, rightLng, bottomLat, leftLng))

\* getBoundingBoxFromBounds: the request's "top,left,bottom,right" string.
getBoundingBoxFromBounds(b) == << b.neLat, b.swLng, b.swLat, b.neLng >>

\* map.getCenter() of a viewport, and the zoom at which the map shows it.
CenterOf(b) == << (b.neLat + b.swLat) \div 2, (b.neLng + b.swLng) \div 2 >>
ZoomOf(b) == IF b = ViewA THEN 8 ELSE 10

\* The map state of a page opened without lat, lng and z parameters.
DEFAULT_CENTER == << 413275000, 198187000 >>
DEFAULT_ZOOM == 8
InitialMapState == [center |-> DEFAULT_CENTER, zoom |-> DEFAULT_ZOOM]

\* The zoom handleLocate flies to, and positions the device can report.
LocateZoom == 14
Positions == { << 413300000, 198200000 >>, << 406000000, 197500000 >> }

\* The error notifications of handleLocate.
GeolocationUnsupported == "Geolocation is not supported by your browser."
LocationUnavailable == "Unable to retrieve your location."

CountryContext == [mode |-> "country", bounds |-> None]

\* nextContext of loadStations for a given sourceBounds (nullable).
NextContext(sourceBounds) ==
    IF sourceBounds # None
    THEN [mode |-> "bounds", bounds |-> Some(BoundsTupleOf(sourceBounds[1]))]
    ELSE CountryContext

\* ------------------------------------------------ first-party conversion

\* A JavaScript integer is kept as its two 16-bit halves << hi, lo >>, the
\* value being hi * 65536 + lo: a 32-bit int in two's complement (hi below
\* 65536), or a non-negative number (the numeric ids).
Half == 65536

Num(n) == << n \div Half, n % Half >>

\* acc << 5, wrapped to 32 bits.
Shl5(x) ==
    LET lo == x[2] * 32
    IN << (x[1] * 32 + lo \div Half) % Half, lo % Half >>

\* x - y, wrapped to 32 bits.
Sub32(x, y) ==
    LET lo == x[2] - y[2]
        borrow == IF lo < 0 THEN 1 ELSE 0
    IN << (x[1] - y[1] - borrow) % Half, lo % Half >>

\* (x + code) | 0, for a UTF-16 code unit.
AddCode32(x, code) ==
    LET lo == x[2] + code
    IN << (x[1] + lo \div Half) % Half, lo % Half >>

IsNegative32(x) == x[1] >= 32768

Abs32_Skip(x) == x

\* Math.abs of a 32-bit int: a number up to 2^31.
Abs32(x) ==
    IF IsNegative32(x)
    THEN IF x[2] = 0 THEN << Half - x[1], 0 >> ELSE << Half - 1 - x[1], Half - x[2] >>
    ELSE x

\* a + b for non-negative numbers.
Plus(a, b) ==
    LET lo == a[2] + b[2]
    IN << a[1] + b[1] + lo \div Half, lo % Half >>

RECURSIVE HashFrom(_, _)
\* The reduce of convertToOCMFormat: acc := ((acc << 5) - acc) + code | 0.
HashFrom(acc, chars) ==
    IF chars = << >>
    THEN acc
    ELSE HashFrom(AddCode32(Sub32(Shl5(acc), acc), Head(chars)), Tail(chars))

IdOffset == 1000000

NumericId(id) == Plus(Abs32(HashFrom(Num(0), id)), Num(IdOffset))

\* A first-party record: persistent id, nullable latitude and longitude.
Station(id, lat, lng) == [id |-> id, latitude |-> lat, longitude |-> lng]

\* A feature of the merged list.
Feature(id, custom, lat, lng) ==
    [id |-> id, isCustomStation |-> custom, latitude |-> lat, longitude |-> lng]

convertToOCMFormat_OnlyChecksLatitude(station) ==
    IF station.latitude = None
    THEN None
    ELSE Some(Feature(NumericId(station.id), TRUE, station.latitude[1],
                      IF station.longitude = None THEN 0 ELSE station.longitude[1]))

convertToOCMFormat_HashesLatitude(station) ==
    IF station.latitude = None \/ station.longitude = None
    THEN None
    ELSE Some(Feature(NumericId(Append(station.id, (station.latitude[1] \div 1000000) % 128)), TRUE,
                      station.latitude[1], station.longitude[1]))

\* convertToOCMFormat: null without coordinates, else the converted feature.
convertToOCMFormat(station) ==
    IF station.latitude = None \/ station.longitude = None
    THEN None
    ELSE Some(Feature(NumericId(station.id), TRUE,
                      station.latitude[1], station.longitude[1]))

RECURSIVE ConvertedCustomStations(_)
\* customStations.map(convertToOCMFormat).filter(station => station !== null)
ConvertedCustomStations(customStations) ==
    IF customStations = << >>
    THEN << >>
    ELSE LET c == convertToOCMFormat(Head(customStations))
         IN (IF c = None THEN << >> ELSE << c[1] >>)
                \o ConvertedCustomStations(Tail(customStations))

mergeStationsWithOCM_CustomFirst(customStations, ocmStations) ==
    ConvertedCustomStations(customStations) \o ocmStations

mergeStationsWithOCM(customStations, ocmStations) ==
    ocmStations \o ConvertedCustomStations(customStations)

\* ------------------------------------------------ what the sources return

OcmA == Feature(Num(101), FALSE, 413000000, 198000000)
OcmB == Feature(Num(102), FALSE, 414000000, 199000000)

\* A third-party response: its features member, None when it is no array.
OcmResponses == { None, Some(<< >>), Some(<< OcmB, OcmA >>) }

StationA == Station(<< 97 >>, Some(412000000), Some(197000000))
StationNoCoords == Station(<< 98, 99 >>, None, Some(197000000))

\* What the first-party collection holds when it is read.
CustomResponses == { << StationNoCoords, StationA >> }

\* What fetchStations rejects with when the request was not aborted.
NetworkError == [isError |-> TRUE, message |-> "Network"]
NonError == [isError |-> FALSE, message |-> ""]
\* What it rejects with once its signal is aborted.
AbortError == [isError |-> TRUE, message |-> "Aborted"]

FallbackMessage == "Failed to load charging locations"

\* How fetchStations settles: resolved with a response, or rejected.
OcmOutcomes ==
    { [ok |-> TRUE, features |-> r, err |-> NonError] : r \in OcmResponses }
        \cup { [ok |-> FALSE, features |-> None, err |-> e] :
                 e \in {NetworkError, NonError, AbortError} }

\* How fetchChargingStations settles: resolved with the collection, or
\* rejected (it rethrows every failure as an Error).
CustomFailed == [ok |-> FALSE, list |-> << >>]
CustomOutcomes == { [ok |-> TRUE, list |-> l] : l \in CustomResponses } \cup { CustomFailed }

\* How the two fetches of a load have settled when Promise.all settles:
\* both, or the third-party one with a rejection, and then the first-party
\* outcome (which may not be there yet) is never read.
Settlements ==
    { << o, c >> : o \in { x \in OcmOutcomes : x.ok }, c \in CustomOutcomes }
        \cup { << o, CustomFailed >> : o \in { x \in OcmOutcomes : ~x.ok } }

\* ------------------------------------------------------ services/gemini.ts
\* A text is the sequence of its characters, each a string of length one
\* (but for BackTick).

WhiteSpace == { " ", "\n", "\t", "\r" }

Letters == { "a", "b", "c", "d", "e", "f", "g", "h", "i", "j", "k", "l", "m",
             "n", "o", "p", "q", "r", "s", "t", "u", "v", "w", "x", "y", "z",
             "A", "B", "C", "D", "E", "F", "G", "H", "I", "J", "K", "L", "M",
             "N", "O", "P", "Q", "R", "S", "T", "U", "V", "W", "X", "Y", "Z" }

Digits == { "0", "1", "2", "3", "4", "5", "6", "7", "8", "9" }

Least(S) == CHOOSE x \in S : \A y \in S : x <= y

Greatest(S) == CHOOSE x \in S : \A y \in S : x >= y

\* The first position from p on (p <= Len(t) + 1) whose character is not in
\* S, and Len(t) + 1 when there is none: what a greedy S* leaves.
SkipWhile(t, p, S) ==
    Least({ q \in p..(Len(t) + 1) : q = Len(t) + 1 \/ t[q] \notin S })

\* String.prototype.trim
Trim(t) ==
    LET kept == { q \in 1..Len(t) : t[q] \notin WhiteSpace }
    IN IF kept = {} THEN << >> ELSE SubSeq(t, Least(kept), Greatest(kept))

\* The grave accent, which a string of the model cannot hold.
BackTick == "grave accent"

Fence == << BackTick, BackTick, BackTick >>

StartsWithFence(t) == Len(t) >= 3 /\ SubSeq(t, 1, 3) = Fence

EndsWithFence(t) == Len(t) >= 3 /\ SubSeq(t, Len(t) - 2, Len(t)) = Fence

\* text.replace(/^```[a-z]*\n([\s\S]*?)\n```$/i, '$1'): the pattern is
\* anchored at both ends of the text, so it matches the whole text or
\* nothing; the letters are followed by a newline at p, and the lazy group
\* is what lies between that newline and the one before the closing fence.
ReplaceFullBlock(t) ==
    LET n == Len(t)
        p == SkipWhile(t, 4, Letters)
    IN IF /\ StartsWithFence(t) /\ EndsWithFence(t)
          /\ p <= n - 4
          /\ t[p] = "\n" /\ t[n - 3] = "\n"
       THEN SubSeq(t, p + 1, n - 4)
       ELSE t

\* text.replace(/^```[a-z]*\s*([\s\S]*?)\s*```$/i, '$1'): the letters and
\* the white space after the opening fence are taken greedily, and the lazy
\* group ends at the last character before the closing fence that is not
\* white space.
ReplaceTightBlock(t) ==
    LET n == Len(t)
        s == SkipWhile(t, SkipWhile(t, 4, Letters), WhiteSpace)
        kept == { q \in s..(n - 3) : t[q] \notin WhiteSpace }
    IN IF StartsWithFence(t) /\ EndsWithFence(t) /\ n >= 6
       THEN IF kept = {} THEN << >> ELSE SubSeq(t, s, Greatest(kept))
       ELSE t

stripMarkdown_TrimOnly(text) == Trim(text)

stripMarkdown(text) == Trim(ReplaceTightBlock(ReplaceFullBlock(text)))

\* JSON.parse, for texts without backslash escapes, fractions and exponents.
\* A value keeps its type, the characters of a string, number or literal,
\* and the members of an object (the elements of an array are not kept).
JsonValue(type, chars, members) ==
    [type |-> type, chars |-> chars, members |-> members]

Parsed(pos, val) == [ok |-> TRUE, pos |-> pos, val |-> val]

SyntaxError == [ok |-> FALSE, pos |-> 0, val |-> JsonValue("undefined", << >>, << >>)]

\* The string whose opening quote is at p.
ParseString(t, p) ==
    LET closing == { q \in (p + 1)..Len(t) : t[q] = "\"" }
        q == Least(closing)
    IN IF \/ closing = {}
          \/ \E k \in (p + 1)..(q - 1) : t[k] \in { "\n", "\t", "\r", "\\" }
       THEN SyntaxError
       ELSE Parsed(q + 1, JsonValue("string", SubSeq(t, p + 1, q - 1), << >>))

\* The integer that starts at p.
ParseNumber(t, p) ==
    LET d == IF t[p] = "-" THEN p + 1 ELSE p
        e == SkipWhile(t, d, Digits)
    IN IF e = d \/ (t[d] = "0" /\ e > d + 1)
       THEN SyntaxError
       ELSE Parsed(e, JsonValue("number", SubSeq(t, p, e - 1), << >>))

Literals ==
    { << "t", "r", "u", "e" >>, << "f", "a", "l", "s", "e" >>, << "n", "u", "l", "l" >> }

\* true, false or null at p.
ParseLiteral(t, p) ==
    LET found == { w \in Literals : /\ p + Len(w) - 1 <= Len(t)
                                    /\ SubSeq(t, p, p + Len(w) - 1) = w }
    IN IF found = {}
       THEN SyntaxError
       ELSE LET w == CHOOSE w \in found : TRUE
            IN Parsed(p + Len(w),
                      JsonValue(IF w[1] = "n" THEN "null" ELSE "boolean", w, << >>))

RECURSIVE ParseValue(_, _), ParseMembers(_, _, _), ParseElements(_, _)

\* The members of an object from p on, after the members acc.
ParseMembers(t, p, acc) ==
    LET k == SkipWhile(t, p, WhiteSpace)
    IN IF k > Len(t) \/ t[k] # "\"" THEN SyntaxError ELSE
       LET key == ParseString(t, k)
       IN IF ~key.ok THEN SyntaxError ELSE
          LET c == SkipWhile(t, key.pos, WhiteSpace)
          IN IF c > Len(t) \/ t[c] # ":" THEN SyntaxError ELSE
             LET v == ParseValue(t, SkipWhile(t, c + 1, WhiteSpace))
             IN IF ~v.ok THEN SyntaxError ELSE
                LET e == SkipWhile(t, v.pos, WhiteSpace)
                    all == Append(acc, [key |-> key.val.chars, value |-> v.val])
                IN IF e > Len(t) THEN SyntaxError
                   ELSE IF t[e] = "}" THEN Parsed(e + 1, JsonValue("object", << >>, all))
                   ELSE IF t[e] = "," THEN ParseMembers(t, e + 1, all)
                   ELSE SyntaxError

\* The elements of an array from p on.
ParseElements(t, p) ==
    LET v == ParseValue(t, SkipWhile(t, p, WhiteSpace))
    IN IF ~v.ok THEN SyntaxError ELSE
       LET e == SkipWhile(t, v.pos, WhiteSpace)
       IN IF e > Len(t) THEN SyntaxError
          ELSE IF t[e] = "]" THEN Parsed(e + 1, JsonValue("array", << >>, << >>))
          ELSE IF t[e] = "," THEN ParseElements(t, e + 1)
          ELSE SyntaxError

\* The value that starts at p (white space already skipped).
ParseValue(t, p) ==
    IF p > Len(t) THEN SyntaxError
    ELSE IF t[p] = "{"
    THEN LET k == SkipWhile(t, p + 1, WhiteSpace)
         IN IF k <= Len(t) /\ t[k] = "}"
            THEN Parsed(k + 1, JsonValue("object", << >>, << >>))
            ELSE ParseMembers(t, p + 1, << >>)
    ELSE IF t[p] = "["
    THEN LET k == SkipWhile(t, p + 1, WhiteSpace)
         IN IF k <= Len(t) /\ t[k] = "]"
            THEN Parsed(k + 1, JsonValue("array", << >>, << >>))
            ELSE ParseElements(t, p + 1)
    ELSE IF t[p] = "\"" THEN ParseString(t, p)
    ELSE IF t[p] = "-" \/ t[p] \in Digits THEN ParseNumber(t, p)
    ELSE ParseLiteral(t, p)

\* JSON.parse(text): None for a SyntaxError, else Some(value).
JSONparse(text) ==
    LET r == ParseValue(text, SkipWhile(text, 1, WhiteSpace))
    IN IF r.ok /\ SkipWhile(text, r.pos, WhiteSpace) = Len(text) + 1
       THEN Some(r.val)
       ELSE None

KeyBrand ==
    << "b", "r", "a", "n", "d" >>

KeyModelName ==
    << "m", "o", "d", "e", "l", "_", "n", "a", "m", "e" >>

Unknown ==
    << "U", "n", "k", "n", "o", "w", "n" >>

\* payload[key] of a parsed value that is not null: undefined (None) unless
\* the value is an object with that key; the last of equal keys counts.
Property(payload, key) ==
    LET at == { i \in DOMAIN payload.members : payload.members[i].key = key }
    IN IF at = {} THEN None ELSE Some(payload.members[Greatest(at)].value)

\* cleanString: the trimmed string, or undefined (None).
cleanString(value) ==
    IF value # None /\ value[1].type = "string" /\ Trim(value[1].chars) # << >>
    THEN Some(Trim(value[1].chars))
    ELSE None

\* normalizeGeminiModel, for a payload that is not null.  Of the Model, the
\* brand, the model name, the source and isFeatured are kept.
normalizeGeminiModel(payload, fallbackBrand, fallbackModel) ==
    LET given == cleanString(Property(payload, KeyBrand))
        named == cleanString(Property(payload, KeyModelName))
        brand == IF given = None THEN fallbackBrand ELSE given[1]
        modelName == IF named = None THEN fallbackModel ELSE named[1]
    IN [ brand |-> IF brand = << >> THEN Unknown ELSE brand,
         model_name |-> IF modelName = << >> THEN Unknown ELSE modelName,
         source |-> "ai",
         isFeatured |-> FALSE ]

\* How the promise of enrichModelWithGemini settles.  The message of an
\* Error is its beginning (head) and, when it goes on with "\nRaw text: ",
\* the characters of the response after that.
Rejection(head, rawText) ==
    [kind |-> "rejected", head |-> head, rawText |-> rawText, model |-> None]

Resolution(model) ==
    [kind |-> "resolved", head |-> "", rawText |-> None, model |-> Some(model)]

TimedOut == "Gemini request timed out"
EmptyResponse == "Gemini returned an empty response."
ParsingFailed == "Gemini response parsing failed: "

\* text.substring(0, 200)
RawTextLimit == 200

\* enrichModelWithGemini from the settling of the request on, for a
\* configured client.  A JSON null makes normalizeGeminiModel throw a
\* TypeError inside the try block, which the catch reports like a
\* SyntaxError.
enrichModelWithGemini(apiResponse, brand, modelName) ==
    IF apiResponse.status = "rejected"
    THEN Rejection(TimedOut, None)
    ELSE LET text == apiResponse.text
         IN IF Trim(text) = << >>
            THEN Rejection(EmptyResponse, None)
            ELSE LET parsed == JSONparse(stripMarkdown(text))
                 IN IF parsed = None \/ parsed[1].type = "null"
                    THEN Rejection(ParsingFailed,
                                   Some(SubSeq(text, 1,
                                               IF Len(text) < RawTextLimit
                                               THEN Len(text) ELSE RawTextLimit)))
                    ELSE Resolution(normalizeGeminiModel(parsed[1], brand, modelName))

\* The responses of the model.
LangLower ==
    << "j", "s", "o", "n" >>

LangUpper ==
    << "J", "S", "O", "N" >>

NewLine ==
    << "\n" >>

Blank ==
    << " " >>

ObjBrandAndModel ==
    << "{", "\"", "b", "r", "a", "n", "d", "\"", ":", " ", "\"", "B", "Y",
       "D", "\"", ",", " ", "\"", "m", "o", "d", "e", "l", "_", "n", "a",
       "m", "e", "\"", ":", " ", "\"", "S", "E", "A", "L", "I", "O", "N",
       " ", "7", "\"", "}" >>

ObjPaddedBrand ==
    << "{", "\"", "b", "r", "a", "n", "d", "\"", ":", "\"", " ", "B", "Y",
       "D", " ", "\"", "}" >>

ObjNumericBrand ==
    << "{", "\"", "b", "r", "a", "n", "d", "\"", ":", "4", "2", "}" >>

ObjEmpty ==
    << "{", "}" >>

NotJson ==
    << "n", "o", "t", "-", "j", "s", "o", "n" >>

JsonNull ==
    << "n", "u", "l", "l" >>

JsonNumber ==
    << "4", "2" >>

JsonArray ==
    << "[", "1", ",", " ", "2", "]" >>

Truncated ==
    << "{", "\"", "b", "r", "a", "n", "d", "\"", ":", "\"", "B", "Y", "D",
       "\"" >>

Byd ==
    << "B", "Y", "D" >>

Sealion7 ==
    << "S", "E", "A", "L", "I", "O", "N", " ", "7" >>

BrandArgument ==
    << "T", "e", "s", "t" >>

ModelArgument ==
    << "M", "o", "d", "e", "l" >>

ObjectBodies == { ObjBrandAndModel, ObjPaddedBrand, ObjNumericBrand, ObjEmpty }

Bodies == ObjectBodies \cup { NotJson, JsonNull, JsonNumber, JsonArray, Truncated, << >> }

Openings == { Fence, Fence \o LangLower, Fence \o LangUpper \o NewLine,
              Fence \o LangLower \o NewLine, Fence \o NewLine,
              Fence \o LangLower \o Blank }

Closings == { Fence, NewLine \o Fence, Blank \o Fence, NewLine \o NewLine \o Fence }

\* body between an opening and a closing fence.
Fenced(body) == { open \o body \o close : open \in Openings, close \in Closings }

Texts ==
    { pre \o open \o body \o close \o post :
        pre \in { << >>, NewLine }, open \in Openings \cup { << >> },
        body \in Bodies, close \in Closings \cup { << >> },
        post \in { << >>, NewLine, Blank } }

GeminiResponses ==
    { [status |-> "fulfilled", text |-> t] : t \in Texts }
        \cup { [status |-> "rejected", text |-> << >>] }

NoResponse == [status |-> "none", text |-> << >>]

\* ------------------------------------------- the list view and the markers

\* String.prototype.toLowerCase, for the capitals the texts of the model hold.
LowerOf(c) ==
    CASE c = "T" -> "t" [] c = "D" -> "d" [] c = "H" -> "h" [] c = "U" -> "u"
      [] OTHER -> c
toLowerCase(text) == [i \in DOMAIN text |-> LowerOf(text[i])]

\* String.prototype.includes
includes(text, query) ==
    \E i \in 0..(Len(text) - Len(query)) : SubSeq(text, i + 1, i + Len(query)) = query

\* properties.title of a feature: the records of the model carry a title,
\* no operator and no address.
TitleOf(feature) ==
    IF feature.isCustomStation THEN << "H", "u", "b" >>
    ELSE IF feature = OcmA THEN << "T", "i", "r", "a", "n", "a" >>
    ELSE << "D", "u", "r", "r", "e", "s" >>
OperatorOf(feature) == << >>
formatAddress(feature) == << >>

\* The comparator of the sort in visibleStations.
CustomFirst(a, b) ==
    (IF b.isCustomStation THEN 1 ELSE 0) - (IF a.isCustomStation THEN 1 ELSE 0)

Insert_BeforeEquals(sorted, x) ==
    LET p == Greatest({0} \cup { i \in DOMAIN sorted : CustomFirst(sorted[i], x) < 0 })
    IN SubSeq(sorted, 1, p) \o << x >> \o SubSeq(sorted, p + 1, Len(sorted))

\* One step of a stable sort: x goes behind the last element that the
\* comparator does not put after it.
Insert(sorted, x) ==
    LET p == Greatest({0} \cup { i \in DOMAIN sorted : CustomFirst(sorted[i], x) <= 0 })
    IN SubSeq(sorted, 1, p) \o << x >> \o SubSeq(sorted, p + 1, Len(sorted))

RECURSIVE Sort(_)
\* [...list].sort(comparator): Array.prototype.sort is stable, and sorts
\* the copy.
Sort(list) ==
    IF list = << >>
    THEN << >>
    ELSE Insert(Sort(SubSeq(list, 1, Len(list) - 1)), list[Len(list)])

\* The filter of visibleStations for a query that is not empty.
Matches(feature, query) ==
    \/ includes(toLowerCase(TitleOf(feature)), query)
    \/ includes(toLowerCase(OperatorOf(feature)), query)
    \/ includes(toLowerCase(formatAddress(feature)), query)

\* The useMemo of visibleStations.
VisibleStations(list, term) ==
    LET sorted == Sort(list)
        query == toLowerCase(Trim(term))
    IN IF query = << >>
       THEN sorted
       ELSE SelectSeq(sorted, LAMBDA feature : Matches(feature, query))

\* getStationLatLng: the features of the model have a Point geometry with
\* finite coordinates.
getStationLatLng(feature) == [lat |-> feature.latitude, lng |-> feature.longitude]

\* L.marker for a feature.
Marker(feature) ==
    [id |-> feature.id, latLng |-> getStationLatLng(feature),
     icon |-> IF feature.isCustomStation THEN "custom" ELSE "default"]

\* The marker effect: clusterGroup.addLayer for each feature of the list
\* view, in its order (list, the displayed list, is not read).
MarkersAdded(visible, list) == [i \in DOMAIN visible |-> Marker(visible[i])]

\* markersRef.current after the effect: the last marker set for each id.
Registered(layers) ==
    [id \in { layers[i].id : i \in DOMAIN layers }
        |-> Greatest({ i \in DOMAIN layers : layers[i].id = id })]

NoMarkers == Registered(<< >>)

\* What the search box is given.
SearchTerms == { << >>, << " " >>, << "T", "i" >>, << " ", "h", "U", "b" >>, << "x" >> }

\* ------------------------------------------------------------------ state

VARIABLES
    mounted,                  \* the page is mounted (false after teardown)
    autoUpdate,               \* useState: auto-sync
    stations,                 \* useState: the displayed station list
    loadingStations,          \* useState
    error,                    \* useState: None or Some(message)
    lastUpdated,              \* useState: 0, or the Date created by that load
    pendingSearch,            \* useState
    fetchControllerRef,       \* 0, or the load whose controller it holds
    requestTokenRef,
    lastNonEmptyStationsRef,  \* None or Some(list)
    lastContextRef,
    pendingBoundsRef,         \* None or Some(bounds)
    moveDebounceRef,          \* 0 or a timer handle
    hasLoadedOnceRef,
    loads,                    \* loads[t]: the awaiting loadStations call with token t
    timers,                   \* pending window.setTimeout callbacks
    lastMove,                 \* observation: the bounds of the latest movement event
    lastDone,                 \* observation: the load whose await the latest step ended
    lastApplied,              \* observation: the load whose result was applied last
    customInput,              \* the first-party collection given to the merge
    ocmInput,                 \* the third-party list given to the merge
    mergedOutput,             \* None, or Some(what mergeStationsWithOCM returned)
    converted,                \* None, or Some(customInput.map(convertToOCMFormat))
    geminiResponse,           \* how the generateContent request settled
    geminiResult,             \* None, or Some(how enrichModelWithGemini settled)
    mapState,                 \* useState: the centre and zoom of the map
    geolocation,              \* navigator.geolocation is there
    positionRequests,         \* the getCurrentPosition calls made so far
    pendingPositions,         \* those of them whose callbacks are still to come
    toasts,                   \* the notifications given to addToast, in order
    searchTerm,               \* useState: the text of the search box
    visibleStations,          \* useMemo: the list view, as of the last render
    clusterLayers,            \* the markers of the cluster group, as added
    markersRef                \* markersRef.current: id -> its place in clusterLayers

\* The arguments and results of the conversion functions called on their own.
conversionVars == << customInput, ocmInput, mergedOutput, converted >>

pageVars == << mounted, autoUpdate, stations, loadingStations, error,
               lastUpdated, pendingSearch, fetchControllerRef, requestTokenRef,
               lastNonEmptyStationsRef, lastContextRef, pendingBoundsRef,
               moveDebounceRef, hasLoadedOnceRef, loads, timers, lastMove,
               lastDone, lastApplied >>

\* The response given to enrichModelWithGemini and its result.
geminiVars == << geminiResponse, geminiResult >>

\* The map state and the "locate me" requests.
locateVars == << mapState, geolocation, positionRequests, pendingPositions, toasts >>

\* The search box, the list view and the markers.
viewVars == << searchTerm, visibleStations, clusterLayers, markersRef >>

\* The variables that no load reads or writes.
pureVars == << conversionVars, geminiVars, locateVars, viewVars >>

vars == << pageVars, pureVars >>

\* The React state of the page, the refs, and the rest.
stateVars == << stations, loadingStations, error, lastUpdated >>
resultRefs == << lastNonEmptyStationsRef, lastContextRef, hasLoadedOnceRef >>
trackerVars == << autoUpdate, pendingSearch, moveDebounceRef, timers, lastMove >>

\* A state setter: React drops the update of an unmounted component.
SetState(current, next) == IF mounted THEN next ELSE current

\* The loads that have not left their await.
InFlight == DOMAIN loads

\* ------------------------------------------------------------ loadStations

\* The frame of a loadStations call at its await.
NewLoad(mode, optBounds) ==
    LET sourceBounds == IF mode = "bounds" THEN optBounds ELSE None
    IN [ mode |-> mode,
         sourceBounds |-> sourceBounds,
         nextContext |-> NextContext(sourceBounds),
         boundingBox |-> IF mode = "bounds" /\ optBounds # None
                         THEN Some(getBoundingBoxFromBounds(optBounds[1]))
                         ELSE None,
         aborted |-> FALSE ]

AbortCurrent_Skip(ls) == ls

\* fetchControllerRef.current.abort(), when there is a controller (the
\* controller of a call that has returned is read by nobody any more).
AbortCurrent(ls) ==
    IF fetchControllerRef # 0 /\ fetchControllerRef \in DOMAIN ls
    THEN [ls EXCEPT ![fetchControllerRef].aborted = TRUE]
    ELSE ls

\* ls with the frame of load t added.
WithLoad(ls, t, frame) ==
    [u \in DOMAIN ls \cup {t} |-> IF u = t THEN frame ELSE ls[u]]

\* ls without the frame of load t.
WithoutLoad(ls, t) == [u \in DOMAIN ls \ {t} |-> ls[u]]

LoadStations_KeepsToken(mode, optBounds) ==
    /\ requestTokenRef < MaxLoads
    /\ requestTokenRef' = requestTokenRef
    /\ fetchControllerRef' = requestTokenRef
    /\ loads' = WithLoad(AbortCurrent(loads), requestTokenRef, NewLoad(mode, optBounds))
    /\ loadingStations' = SetState(loadingStations, TRUE)
    /\ error' = SetState(error, None)

LoadStations_KeepsError(mode, optBounds) ==
    /\ requestTokenRef < MaxLoads
    /\ requestTokenRef' = requestTokenRef + 1
    /\ fetchControllerRef' = requestTokenRef + 1
    /\ loads' = WithLoad(AbortCurrent(loads), requestTokenRef + 1, NewLoad(mode, optBounds))
    /\ loadingStations' = SetState(loadingStations, TRUE)
    /\ UNCHANGED error

\* loadStations(mode, {bounds}) up to its await: abort the previous
\* controller, take a new token, set loading, clear the error, issue both
\* sub-fetches.
LoadStations(mode, optBounds) ==
    /\ requestTokenRef < MaxLoads
    /\ requestTokenRef' = requestTokenRef + 1
    /\ fetchControllerRef' = requestTokenRef + 1
    /\ loads' = WithLoad(AbortCurrent(loads), requestTokenRef + 1, NewLoad(mode, optBounds))
    /\ loadingStations' = SetState(loadingStations, TRUE)
    /\ error' = SetState(error, None)

Await_NoCatch(ocm, custom) ==
    IF ~ocm.ok
    THEN [resolved |-> FALSE, features |-> None, customStations |-> << >>, err |-> ocm.err]
    ELSE IF ~custom.ok
    THEN [resolved |-> FALSE, features |-> None, customStations |-> << >>,
          err |-> [isError |-> TRUE, message |-> "Failed to fetch charging stations"]]
    ELSE [resolved |-> TRUE, features |-> ocm.features, customStations |-> custom.list,
          err |-> NonError]

\* await Promise.all([fetchStations(...), fetchChargingStations().catch(() => [])]):
\* rejected with the third-party error, else resolved with the third-party
\* response and the first-party list, [] when its fetch rejected.
Await(ocm, custom) ==
    IF ~ocm.ok
    THEN [resolved |-> FALSE, features |-> None, customStations |-> << >>, err |-> ocm.err]
    ELSE [resolved |-> TRUE, features |-> ocm.features,
          customStations |-> IF custom.ok THEN custom.list ELSE << >>,
          err |-> NonError]

\* The finally block of load t.
Finally_NeverClears(t) == loadingStations

Finally(t) ==
    IF ~loads[t].aborted THEN SetState(loadingStations, FALSE) ELSE loadingStations

Stabilized_ShowsEmpty(features) == features

Stabilized_NeverEmpty(features) ==
    IF Len(features) > 0
    THEN features
    ELSE IF lastNonEmptyStationsRef # None /\ Len(lastNonEmptyStationsRef[1]) > 0
    THEN (IF Len(stations) > 0 THEN stations ELSE lastNonEmptyStationsRef[1])
    ELSE << OcmA >>

\* The result stabilizer: what is displayed after the current load
\* resolved with the merged list features.
Stabilized(features) ==
    IF Len(features) > 0
    THEN features
    ELSE IF ~hasLoadedOnceRef
    THEN << >>
    ELSE IF lastNonEmptyStationsRef # None /\ Len(lastNonEmptyStationsRef[1]) > 0
    THEN (IF Len(stations) > 0 THEN stations ELSE lastNonEmptyStationsRef[1])
    ELSE << >>

Apply_KeepsLastNonEmpty(t, ocmFeaturesField, customStations) ==
    LET ocmFeatures == IF ocmFeaturesField # None THEN ocmFeaturesField[1] ELSE << >>
        features == mergeStationsWithOCM(customStations, ocmFeatures)
    IN /\ lastContextRef' = loads[t].nextContext
       /\ stations' = SetState(stations, Stabilized(features))
       /\ lastUpdated' = SetState(lastUpdated, t)
       /\ hasLoadedOnceRef' = TRUE
       /\ pendingBoundsRef' = IF loads[t].sourceBounds # None
                              THEN loads[t].sourceBounds
                              ELSE pendingBoundsRef
       /\ loadingStations' = Finally(t)
       /\ UNCHANGED << error, lastNonEmptyStationsRef >>

\* The continuation of the current load t: merge, record the context,
\* stabilize, refresh the bookkeeping; then the finally block.
Apply(t, ocmFeaturesField, customStations) ==
    LET ocmFeatures == IF ocmFeaturesField # None THEN ocmFeaturesField[1] ELSE << >>
        features == mergeStationsWithOCM(customStations, ocmFeatures)
    IN /\ lastContextRef' = loads[t].nextContext
       /\ stations' = SetState(stations, Stabilized(features))
       /\ lastNonEmptyStationsRef' =
             IF Len(features) > 0 THEN Some(features)
             ELSE IF ~hasLoadedOnceRef THEN None
             ELSE lastNonEmptyStationsRef
       /\ lastUpdated' = SetState(lastUpdated, t)
       /\ hasLoadedOnceRef' = TRUE
       /\ pendingBoundsRef' = IF loads[t].sourceBounds # None
                              THEN loads[t].sourceBounds
                              ELSE pendingBoundsRef
       /\ loadingStations' = Finally(t)
       /\ UNCHANGED error

Resolved_NoTokenCheck(t, ocmFeaturesField, customStations) ==
    Apply(t, ocmFeaturesField, customStations)

\* The continuation of load t after the await resolved: a load that is no
\* longer the current one returns at once (through the finally block).
Resolved(t, ocmFeaturesField, customStations) ==
    IF t # requestTokenRef
    THEN /\ loadingStations' = Finally(t)
         /\ UNCHANGED << stations, lastUpdated, error, resultRefs, pendingBoundsRef >>
    ELSE Apply(t, ocmFeaturesField, customStations)

\* The message setError is given.
ErrorMessage(err) == IF err.isError THEN err.message ELSE FallbackMessage

Rejected_ClearsStations(t, err) ==
    /\ error' = IF loads[t].aborted THEN error ELSE SetState(error, Some(ErrorMessage(err)))
    /\ stations' = IF loads[t].aborted THEN stations ELSE SetState(stations, << >>)
    /\ loadingStations' = Finally(t)
    /\ UNCHANGED << lastUpdated, resultRefs, pendingBoundsRef >>

Rejected_NoMessage(t, err) ==
    /\ loadingStations' = Finally(t)
    /\ UNCHANGED << error, stations, lastUpdated, resultRefs, pendingBoundsRef >>

Rejected_RecordsContext(t, err) ==
    /\ error' = IF loads[t].aborted THEN error ELSE SetState(error, Some(ErrorMessage(err)))
    /\ lastContextRef' = IF loads[t].aborted THEN lastContextRef ELSE loads[t].nextContext
    /\ loadingStations' = Finally(t)
    /\ UNCHANGED << stations, lastUpdated, lastNonEmptyStationsRef, hasLoadedOnceRef,
                    pendingBoundsRef >>

Rejected_KeepsLoading(t, err) ==
    /\ error' = IF loads[t].aborted THEN error ELSE SetState(error, Some(ErrorMessage(err)))
    /\ UNCHANGED << loadingStations, stations, lastUpdated, resultRefs, pendingBoundsRef >>

Rejected_IgnoresAbort(t, err) ==
    /\ error' = SetState(error, Some(ErrorMessage(err)))
    /\ loadingStations' = SetState(loadingStations, FALSE)
    /\ UNCHANGED << stations, lastUpdated, resultRefs, pendingBoundsRef >>

\* The continuation of load t after the await rejected with err: the catch
\* block, then the finally block.
Rejected(t, err) ==
    /\ error' = IF loads[t].aborted THEN error ELSE SetState(error, Some(ErrorMessage(err)))
    /\ loadingStations' = Finally(t)
    /\ UNCHANGED << stations, lastUpdated, resultRefs, pendingBoundsRef >>

\* The features member of a response as a list.
FeaturesOf(field) == IF field # None THEN field[1] ELSE << >>

\* The observation after a step that ended no await.
NoSettle ==
    [ocm |-> "none", custom |-> "none", empty |-> TRUE, current |-> FALSE,
     features |-> << >>, loadedBefore |-> FALSE]

NotASettle == lastDone' = NoSettle /\ UNCHANGED lastApplied

\* Observation of load t leaving its await: how its two fetches settled
\* (the first-party one is not looked at when the third-party one failed),
\* whether it came with no feature at all, whether its token was the
\* current one, and, if it was, the features that its two lists hold and
\* whether a load had been applied before it.
Observe(t, ocm, custom) ==
    /\ lastDone' = [ ocm |-> IF ocm.ok THEN "ok" ELSE "failed",
                     custom |-> IF ~ocm.ok THEN "none"
                                ELSE IF custom.ok THEN "ok" ELSE "failed",
                     empty |-> IF ocm.ok
                               THEN Len(FeaturesOf(ocm.features))
                                       + Len(ConvertedCustomStations(custom.list)) = 0
                               ELSE TRUE,
                     current |-> (t = requestTokenRef),
                     features |-> IF ocm.ok /\ t = requestTokenRef
                                  THEN FeaturesOf(ocm.features)
                                          \o ConvertedCustomStations(custom.list)
                                  ELSE << >>,
                     loadedBefore |-> ocm.ok /\ t = requestTokenRef /\ hasLoadedOnceRef ]
    /\ lastApplied' = IF ocm.ok /\ t = requestTokenRef
                      THEN [tok |-> t, context |-> NextContext(loads[t].sourceBounds)]
                      ELSE lastApplied

\* ---------------------------------------------------------------- actions

\* The await of load t ends: fetchStations settled as ocm and
\* fetchChargingStations as custom.  No code of the page runs when the
\* first of the two settles, so the turn modelled is the one in which
\* Promise.all settles and the continuation of loadStations runs.
LoadSettles(t, ocm, custom) ==
    /\ t \in InFlight
    /\ ocm.err = AbortError => loads[t].aborted
    /\ loads' = WithoutLoad(loads, t)
    /\ LET r == Await(ocm, custom)
       IN IF r.resolved
          THEN Resolved(t, r.features, r.customStations)
          ELSE Rejected(t, r.err)
    /\ Observe(t, ocm, custom)
    /\ UNCHANGED pureVars
    /\ UNCHANGED << mounted, trackerVars, fetchControllerRef, requestTokenRef >>

ClearDebounce_Skip(tms) == tms

\* clearTimeout(moveDebounceRef.current), when it holds a handle.
ClearDebounce(tms) ==
    IF moveDebounceRef # 0 THEN { tm \in tms : tm.id # moveDebounceRef } ELSE tms

\* window.setTimeout: a handle that no timer pending when the handler
\* began has (the least such, handles being opaque).
NewHandle(tms) ==
    CHOOSE i \in 1..(Cardinality(tms) + 1) :
        /\ \A tm \in tms : tm.id # i
        /\ \A j \in 1..(i - 1) : \E tm \in tms : tm.id = j

\* handleMapMove with auto-sync on: restart the debounce timer.  A timer
\* holds the bounds its callback captured.
MoveWithAutoSync(b) ==
    /\ pendingSearch' = FALSE
    /\ pendingBoundsRef' = Some(b)
    /\ timers' = ClearDebounce(timers) \cup { [id |-> NewHandle(timers), bounds |-> b] }
    /\ moveDebounceRef' = NewHandle(timers)

\* handleMapMove with auto-sync off: remember the bounds, ask for a search.
MoveWithoutAutoSync(b) ==
    /\ pendingBoundsRef' = Some(b)
    /\ pendingSearch' = TRUE
    /\ UNCHANGED << timers, moveDebounceRef >>

HandleMapMove_AlwaysSchedules(b) ==
    /\ mounted
    /\ MoveWithAutoSync(b)
    /\ lastMove' = Some(b)
    /\ mapState' = [center |-> CenterOf(b), zoom |-> ZoomOf(b)]
    /\ UNCHANGED << mounted, autoUpdate, stateVars, resultRefs, fetchControllerRef,
                    requestTokenRef, loads >>
    /\ NotASettle
    /\ UNCHANGED << conversionVars, geminiVars, geolocation, positionRequests,
                    pendingPositions, toasts, viewVars >>

\* A pan or zoom ends while the map shows bounds b: handleMapMove (the
\* listeners are on the map, which lives as long as the page is mounted).
HandleMapMove(b) ==
    /\ mounted
    /\ IF autoUpdate THEN MoveWithAutoSync(b) ELSE MoveWithoutAutoSync(b)
    /\ lastMove' = Some(b)
    /\ mapState' = [center |-> CenterOf(b), zoom |-> ZoomOf(b)]
    /\ UNCHANGED << mounted, autoUpdate, stateVars, resultRefs, fetchControllerRef,
                    requestTokenRef, loads >>
    /\ NotASettle
    /\ UNCHANGED << conversionVars, geminiVars, geolocation, positionRequests,
                    pendingPositions, toasts, viewVars >>

\* The debounce timer tm expires: loadStations('bounds', {bounds}).
TimerFires(tm) ==
    /\ tm \in timers
    /\ timers' = timers \ {tm}
    /\ LoadStations("bounds", Some(tm.bounds))
    /\ UNCHANGED << mounted, autoUpdate, pendingSearch, moveDebounceRef, lastMove,
                    stations, lastUpdated, resultRefs, pendingBoundsRef >>
    /\ NotASettle
    /\ UNCHANGED pureVars

\* handleToggleAutoUpdate, and the autoUpdate effect that runs after it;
\* mapBounds is mapRef.current?.getBounds(), None without a map.
HandleToggleAutoUpdate(mapBounds) ==
    /\ mounted
    /\ autoUpdate' = ~autoUpdate
    /\ IF ~autoUpdate /\ mapBounds # None
       THEN /\ pendingSearch' = FALSE
            /\ LoadStations("bounds", mapBounds)
       ELSE UNCHANGED << pendingSearch, fetchControllerRef, requestTokenRef,
                         loads, loadingStations, error >>
    /\ UNCHANGED << mounted, moveDebounceRef, timers, lastMove, stations,
                    lastUpdated, resultRefs, pendingBoundsRef >>
    /\ NotASettle
    /\ UNCHANGED pureVars

HandleSearchArea_Debounced(mapBounds) ==
    /\ mounted
    /\ ~autoUpdate
    /\ LET bounds == IF pendingBoundsRef # None THEN pendingBoundsRef ELSE mapBounds
       IN IF bounds # None
          THEN /\ pendingSearch' = FALSE
               /\ timers' = ClearDebounce(timers)
                                \cup { [id |-> NewHandle(timers), bounds |-> bounds[1]] }
               /\ moveDebounceRef' = NewHandle(timers)
          ELSE UNCHANGED << pendingSearch, timers, moveDebounceRef >>
    /\ UNCHANGED << mounted, autoUpdate, lastMove, stations, lastUpdated, resultRefs,
                    pendingBoundsRef, fetchControllerRef, requestTokenRef, loads,
                    loadingStations, error >>
    /\ NotASettle
    /\ UNCHANGED pureVars

\* handleSearchArea; mapBounds is mapRef.current?.getBounds().
HandleSearchArea(mapBounds) ==
    /\ mounted
    /\ ~autoUpdate
    /\ LET bounds == IF pendingBoundsRef # None THEN pendingBoundsRef ELSE mapBounds
       IN IF bounds # None
          THEN /\ pendingSearch' = FALSE
               /\ LoadStations("bounds", bounds)
          ELSE UNCHANGED << pendingSearch, fetchControllerRef, requestTokenRef,
                            loads, loadingStations, error >>
    /\ UNCHANGED << mounted, autoUpdate, moveDebounceRef, timers, lastMove,
                    stations, lastUpdated, resultRefs, pendingBoundsRef >>
    /\ NotASettle
    /\ UNCHANGED pureVars

\* handleRetry.
HandleRetry ==
    /\ mounted
    /\ error # None
    /\ LET context == lastContextRef
           bounds == IF context.mode = "bounds"
                     THEN boundsFromTuple(context.bounds)
                     ELSE None
       IN IF bounds # None
          THEN LoadStations("bounds", bounds)
          ELSE LoadStations("country", None)
    /\ UNCHANGED << mounted, trackerVars, stations, lastUpdated,
                    resultRefs, pendingBoundsRef >>
    /\ NotASettle
    /\ UNCHANGED pureVars

\* The page unmounts: the cleanups of the mount effect (abort) and of the
\* debounce effect (clearTimeout); the map and its listeners are removed.
Teardown ==
    /\ mounted
    /\ mounted' = FALSE
    /\ loads' = AbortCurrent(loads)
    /\ timers' = ClearDebounce(timers)
    /\ UNCHANGED << autoUpdate, pendingSearch, moveDebounceRef, lastMove, stateVars,
                    resultRefs, pendingBoundsRef, fetchControllerRef, requestTokenRef >>
    /\ NotASettle
    /\ UNCHANGED pureVars

\* ----------------------------------------------------------- specification

\* The page after its mount effects: loadStations('country') is in flight
\* (the autoUpdate effect found no map yet), then the map was created.
PageInit ==
    /\ mounted = TRUE
    /\ autoUpdate \in BOOLEAN
    /\ stations = << >>
    /\ loadingStations = TRUE
    /\ error = None
    /\ lastUpdated = 0
    /\ pendingSearch = FALSE
    /\ fetchControllerRef = 1
    /\ requestTokenRef = 1
    /\ lastNonEmptyStationsRef = None
    /\ lastContextRef = CountryContext
    /\ pendingBoundsRef = None
    /\ moveDebounceRef = 0
    /\ hasLoadedOnceRef = FALSE
    /\ loads = WithLoad(<< >>, 1, NewLoad("country", None))
    /\ timers = {}
    /\ lastMove = None
    /\ lastDone = NoSettle
    /\ lastApplied = [tok |-> 0, context |-> CountryContext]

\* The page on its own: the conversion functions are called by its loads only.
Init ==
    /\ PageInit
    /\ customInput = << >>
    /\ ocmInput = << >>
    /\ mergedOutput = None
    /\ converted = None
    /\ geminiResponse = NoResponse
    /\ geminiResult = None
    /\ mapState = InitialMapState
    /\ geolocation = TRUE
    /\ positionRequests = 0
    /\ pendingPositions = 0
    /\ toasts = << >>
    /\ searchTerm = << >>
    /\ visibleStations = << >>
    /\ clusterLayers = << >>
    /\ markersRef = NoMarkers

Next ==
    \/ \E t \in InFlight, s \in Settlements : LoadSettles(t, s[1], s[2])
    \/ \E b \in Viewports : HandleMapMove(b)
    \/ \E tm \in timers : TimerFires(tm)
    \/ \E b \in Viewports : HandleToggleAutoUpdate(Some(b))
    \/ \E b \in Viewports : HandleSearchArea(Some(b))
    \/ HandleRetry
    \/ Teardown

Spec == Init /\ [][Next]_vars

\* Some load leaves its await.
Settle == \E t \in InFlight, s \in Settlements : LoadSettles(t, s[1], s[2])

\* The page with fetches that settle: a fetch resolves or rejects in the
\* end (the browser ends a request with a response or a network error, and
\* an aborted one with an AbortError), so a load does not stay at its await
\* for ever.
SpecLive == Init /\ [][Next]_vars /\ WF_vars(Settle)

\* ------------------------------------------------------------ "locate me"

\* What a step of handleLocate or of its callbacks leaves alone on the page.
LocateFrame ==
    /\ UNCHANGED << mounted, trackerVars, stateVars, resultRefs, pendingBoundsRef,
                    fetchControllerRef, requestTokenRef, loads >>
    /\ NotASettle
    /\ UNCHANGED << geolocation, conversionVars, geminiVars, viewVars >>

\* The "locate me" button: handleLocate.  Without navigator.geolocation it
\* notifies and returns; else it makes one single-shot position request.
HandleLocate ==
    /\ mounted
    /\ (IF geolocation THEN positionRequests ELSE Len(toasts)) < MaxLocates
    /\ IF ~geolocation
       THEN /\ toasts' = Append(toasts, GeolocationUnsupported)
            /\ UNCHANGED << positionRequests, pendingPositions >>
       ELSE /\ positionRequests' = positionRequests + 1
            /\ pendingPositions' = pendingPositions + 1
            /\ UNCHANGED toasts
    /\ UNCHANGED mapState
    /\ LocateFrame

\* The success callback of a position request, with position p: flyTo on
\* the map and setMapState.
PositionFound(p) ==
    /\ pendingPositions > 0
    /\ pendingPositions' = pendingPositions - 1
    /\ mapState' = SetState(mapState, [center |-> p, zoom |-> LocateZoom])
    /\ UNCHANGED << positionRequests, toasts >>
    /\ LocateFrame

PositionFailed_AsksAgain ==
    /\ pendingPositions > 0
    /\ positionRequests < MaxLocates
    /\ positionRequests' = positionRequests + 1
    /\ toasts' = Append(toasts, LocationUnavailable)
    /\ UNCHANGED << pendingPositions, mapState >>
    /\ LocateFrame

\* The error callback of a position request (permission denied, position
\* unavailable, or the 10 s timeout): one notification.
PositionFailed ==
    /\ pendingPositions > 0
    /\ pendingPositions' = pendingPositions - 1
    /\ toasts' = Append(toasts, LocationUnavailable)
    /\ UNCHANGED << positionRequests, mapState >>
    /\ LocateFrame

\* The page of a browser with or without geolocation.
LocateInit ==
    /\ PageInit
    /\ customInput = << >>
    /\ ocmInput = << >>
    /\ mergedOutput = None
    /\ converted = None
    /\ geminiResponse = NoResponse
    /\ geminiResult = None
    /\ mapState = InitialMapState
    /\ geolocation \in BOOLEAN
    /\ positionRequests = 0
    /\ pendingPositions = 0
    /\ toasts = << >>
    /\ searchTerm = << >>
    /\ visibleStations = << >>
    /\ clusterLayers = << >>
    /\ markersRef = NoMarkers

\* The page with its "locate me" button, its map movements and its loads.
LocateNext ==
    \/ HandleLocate
    \/ \E p \in Positions : PositionFound(p)
    \/ PositionFailed
    \/ \E t \in InFlight, s \in Settlements : LoadSettles(t, s[1], s[2])
    \/ \E b \in Viewports : HandleMapMove(b)
    \/ \E tm \in timers : TimerFires(tm)
    \/ Teardown

SpecLocate == LocateInit /\ [][LocateNext]_vars

\* ------------------------------------------- the conversions on their own

\* Persistent ids: the empty one, short ones, one whose hash is negative
\* ("station") and one whose hash is the least 32-bit value ("aAgaAXq").
IdEmpty == << >>
IdAa == << 65, 97 >>                                     \* "Aa", hash 2112
IdBB == << 66, 66 >>                                     \* "BB", hash 2112
IdNegative == << 115, 116, 97, 116, 105, 111, 110 >>
IdMinimum == << 97, 65, 103, 97, 65, 88, 113 >>
Ids == { IdEmpty, IdAa, IdBB, IdNegative, IdMinimum }

\* First-party records: with and without each coordinate, 0 included.
CustomRecords ==
    { Station(id, lat, lng) : id \in Ids,
                              lat \in { None, Some(0), Some(412000000) },
                              lng \in { None, Some(197000000) } }

\* The sequences over S of length at most n.
SeqUpTo(S, n) == UNION { [1..k -> S] : k \in 0..n }

\* mergeStationsWithOCM(customInput, ocmInput) is called.
Merge ==
    /\ mergedOutput = None
    /\ mergedOutput' = Some(mergeStationsWithOCM(customInput, ocmInput))
    /\ UNCHANGED << customInput, ocmInput, converted >>

\* customInput.map(convertToOCMFormat) is called.
ConvertAll ==
    /\ converted = None
    /\ converted' = Some([i \in DOMAIN customInput |-> convertToOCMFormat(customInput[i])])
    /\ UNCHANGED << customInput, ocmInput, mergedOutput >>

ConversionInit ==
    /\ PageInit
    /\ customInput \in SeqUpTo(CustomRecords, MaxCustom)
    /\ ocmInput \in { << >>, << OcmA >>, << OcmB, OcmA >> }
    /\ mergedOutput = None
    /\ converted = None
    /\ geminiResponse = NoResponse
    /\ geminiResult = None
    /\ mapState = InitialMapState
    /\ geolocation = TRUE
    /\ positionRequests = 0
    /\ pendingPositions = 0
    /\ toasts = << >>
    /\ searchTerm = << >>
    /\ visibleStations = << >>
    /\ clusterLayers = << >>
    /\ markersRef = NoMarkers

ConversionNext ==
    \/ Merge /\ UNCHANGED << pageVars, geminiVars, locateVars, viewVars >>
    \/ ConvertAll /\ UNCHANGED << pageVars, geminiVars, locateVars, viewVars >>

SpecConversion == ConversionInit /\ [][ConversionNext]_vars

\* ------------------------------------------------- the views of the page

\* handleSearchInput.
HandleSearchInput(value) ==
    /\ mounted
    /\ searchTerm' = value
    /\ UNCHANGED << visibleStations, clusterLayers, markersRef >>
    /\ UNCHANGED << pageVars, conversionVars, geminiVars, locateVars >>

\* The render that a change of stations or searchTerm brings: the useMemo
\* of visibleStations, then the marker effect.
Render ==
    /\ mounted
    /\ visibleStations' = VisibleStations(stations, searchTerm)
    /\ clusterLayers' = MarkersAdded(visibleStations', stations)
    /\ markersRef' = Registered(clusterLayers')
    /\ UNCHANGED searchTerm
    /\ UNCHANGED << pageVars, conversionVars, geminiVars, locateVars >>

\* The first load resolves with the two collections.
StationsLoaded ==
    LoadSettles(1, [ok |-> TRUE, features |-> Some(ocmInput), err |-> NonError],
                   [ok |-> TRUE, list |-> customInput])

\* The page, and the collections its first load will be given.
ViewsInit ==
    /\ PageInit
    /\ customInput \in SeqUpTo(CustomRecords, MaxCustom)
    /\ ocmInput \in { << >>, << OcmA >>, << OcmB, OcmA >> }
    /\ mergedOutput = None
    /\ converted = None
    /\ geminiResponse = NoResponse
    /\ geminiResult = None
    /\ mapState = InitialMapState
    /\ geolocation = TRUE
    /\ positionRequests = 0
    /\ pendingPositions = 0
    /\ toasts = << >>
    /\ searchTerm = << >>
    /\ visibleStations = << >>
    /\ clusterLayers = << >>
    /\ markersRef = NoMarkers

ViewsNext ==
    \/ StationsLoaded
    \/ \E value \in SearchTerms : HandleSearchInput(value)
    \/ Render

SpecViews == ViewsInit /\ [][ViewsNext]_vars

\* ------------------------------------------- enrichModelWithGemini on its own

\* The request has settled and enrichModelWithGemini goes on to its end.
EnrichModelWithGemini ==
    /\ geminiResult = None
    /\ geminiResult' = Some(enrichModelWithGemini(geminiResponse, BrandArgument, ModelArgument))
    /\ UNCHANGED << geminiResponse, pageVars, conversionVars, locateVars, viewVars >>

GeminiInit ==
    /\ PageInit
    /\ customInput = << >>
    /\ ocmInput = << >>
    /\ mergedOutput = None
    /\ converted = None
    /\ geminiResponse \in GeminiResponses
    /\ geminiResult = None
    /\ mapState = InitialMapState
    /\ geolocation = TRUE
    /\ positionRequests = 0
    /\ pendingPositions = 0
    /\ toasts = << >>
    /\ searchTerm = << >>
    /\ visibleStations = << >>
    /\ clusterLayers = << >>
    /\ markersRef = NoMarkers

GeminiNext == EnrichModelWithGemini

SpecGemini == GeminiInit /\ [][GeminiNext]_vars

\* ------------------------------------------------------------------ claims

\* Load t leaves its await in this step (no other step removes a frame).
Settled(t) == t \in InFlight /\ t \notin DOMAIN loads'

\* A load leaves its await in this step.
Settles == \E t \in InFlight : Settled(t)

\* What a load's continuation writes to on success.
written ==
    << stations, lastNonEmptyStationsRef, lastContextRef, lastUpdated, hasLoadedOnceRef >>

\* C1: only the load whose token is the current request token writes to the
\* displayed list, the last-non-empty list, the last query context, the
\* last-updated time or the has-loaded flag: a step in which a load with
\* another token leaves its await, however its fetches settled, and a step
\* in which no load leaves its await, change none of them.
C1_OnlyCurrentTokenWrites ==
    [][ /\ \A t \in InFlight : Settled(t) /\ t # requestTokenRef => UNCHANGED written
        /\ ~Settles => UNCHANGED written ]_vars

\* C1 witness: the country load of the mount resolved with features after
\* the bounds load started later had been applied, and the bounds result
\* is still the one recorded.
C1_StaleCountryLoadResolved ==
    /\ lastDone.ocm = "ok" /\ ~lastDone.current /\ ~lastDone.empty
    /\ requestTokenRef = 2 /\ InFlight = {}
    /\ lastApplied.tok = 2 /\ lastApplied.context.mode = "bounds"
    /\ lastContextRef = lastApplied.context
    /\ lastUpdated = 2 /\ Len(stations) > 0

\* The loads in flight whose signal is not aborted.
Live == { t \in InFlight : ~loads[t].aborted }

\* C2: at most one load with a non-aborted signal is in flight, and it is
\* the one started last.
C2_AtMostOneLiveLoad ==
    /\ Cardinality(Live) <= 1
    /\ \A t \in Live : t = requestTokenRef

\* C2 witness: two loads are in flight, the earlier one aborted by the
\* start of the later one.
C2_PredecessorAborted ==
    /\ InFlight = {1, 2}
    /\ loads[1].aborted /\ ~loads[2].aborted

\* C3: a step in which a load with an aborted signal leaves its await,
\* however its fetches settled, changes neither the displayed list, the
\* last-non-empty list, the last query context, the last-updated time nor
\* the error message.
C3_AbortedLoadChangesNothing ==
    [][ \A t \in InFlight :
           Settled(t) /\ loads[t].aborted
              => UNCHANGED << stations, lastNonEmptyStationsRef, lastContextRef,
                              lastUpdated, error >> ]_vars

\* C4: when the current load resolves with a merged result of zero
\* features while a non-empty list is displayed, the displayed list after
\* the step is exactly the list displayed before it.
C4_EmptyResultKeepsPreviousList ==
    [][ Settles /\ lastDone'.ocm = "ok" /\ lastDone'.current /\ lastDone'.empty
            /\ Len(stations) > 0
          => stations' = stations ]_vars

\* C4 witness: a bounds load that was applied with zero features on a
\* mounted page that still displays the features of an earlier load.
C4_EmptyBoundsResultApplied ==
    /\ mounted
    /\ lastDone.ocm = "ok" /\ lastDone.current /\ lastDone.empty
    /\ lastApplied.tok > 1 /\ lastApplied.context.mode = "bounds"
    /\ lastUpdated = lastApplied.tok
    /\ Len(stations) > 0

\* C5: once the displayed list is non-empty it is non-empty after every
\* step.
C5_NonEmptyStaysNonEmpty ==
    [][ Len(stations) > 0 => Len(stations') > 0 ]_vars

\* C5 witness: a non-empty list is displayed after the third-party fetch of
\* the current load failed on a mounted page.
C5_NonEmptyAfterFailure ==
    /\ mounted
    /\ lastDone.ocm = "failed" /\ lastDone.current
    /\ error # None
    /\ Len(stations) > 0

\* The lists of features fetchStations resolves with.
ThirdPartyLists == { FeaturesOf(o.features) : o \in { x \in OcmOutcomes : x.ok } }

\* C6: when the current, non-aborted load resolves its third-party fetch
\* while its first-party fetch rejected, the load is applied as a success:
\* no error message is set, the loading flag is cleared, the bookkeeping of
\* a success is done, and a non-empty result displayed is the third-party
\* list as it came, which is also the last-non-empty list.
C6_FirstPartyFailureTolerated ==
    [][ \A t \in InFlight :
           Settled(t) /\ t = requestTokenRef /\ ~loads[t].aborted
               /\ lastDone'.ocm = "ok" /\ lastDone'.custom = "failed"
             => /\ error' = None
                /\ ~loadingStations'
                /\ lastUpdated' = t
                /\ hasLoadedOnceRef'
                /\ lastContextRef' = loads[t].nextContext
                /\ ~lastDone'.empty =>
                      /\ stations' \in ThirdPartyLists
                      /\ lastNonEmptyStationsRef' = Some(stations') ]_vars

\* C6 witness: the third-party features alone are displayed, without an
\* error, after a load whose first-party fetch rejected.
C6_ThirdPartyOnlyDisplayed ==
    /\ mounted
    /\ lastDone.ocm = "ok" /\ lastDone.custom = "failed" /\ lastDone.current
    /\ ~lastDone.empty
    /\ error = None /\ ~loadingStations
    /\ stations = << OcmB, OcmA >>

\* C7: when the third-party fetch of the current, non-aborted load fails,
\* the error message is set and the loading flag cleared, and the displayed
\* list, the last-non-empty list, the last query context, the last-updated
\* time and the has-loaded flag are unchanged.
C7_ThirdPartyFailureKeepsDisplay ==
    [][ \A t \in InFlight :
           Settled(t) /\ t = requestTokenRef /\ ~loads[t].aborted
               /\ lastDone'.ocm = "failed"
             => /\ error' # None
                /\ ~loadingStations'
                /\ UNCHANGED written ]_vars

\* C7 witness: a bounds load failed on a page that displays the features
\* of the country load; the message is shown and the country context kept.
C7_FailureShownOverPreviousDisplay ==
    /\ mounted
    /\ lastDone.ocm = "failed" /\ lastDone.current
    /\ requestTokenRef = 2 /\ lastApplied.tok = 1
    /\ error # None /\ ~loadingStations
    /\ Len(stations) > 0 /\ lastContextRef = CountryContext /\ lastUpdated = 1

C9_OneDebouncedLoadPerBurst ==
    [][ /\ Cardinality(timers') <= 1
        /\ \A b \in Viewports :
              autoUpdate /\ HandleMapMove(b)
                => /\ timers' = { [id |-> moveDebounceRef', bounds |-> b] }
                   /\ UNCHANGED << requestTokenRef, fetchControllerRef, loads >>
        /\ \A tm \in timers :
              TimerFires(tm)
                => LET t == requestTokenRef + 1
                   IN /\ timers' = {}
                      /\ requestTokenRef' = t
                      /\ DOMAIN loads' = InFlight \cup {t}
                      /\ loads'[t].mode = "bounds"
                      /\ loads'[t].sourceBounds = Some(tm.bounds)
                      /\ loads'[t].boundingBox = Some(getBoundingBoxFromBounds(tm.bounds))
      ]_vars

\* C9 witness: a movement replaced the pending timer (the second handle is
\* only given out while the first is pending), the new timer expired, and
\* the one load it started is for the bounds of the last movement.
C9_BurstStartedOneLoad ==
    /\ mounted /\ autoUpdate
    /\ moveDebounceRef = 2 /\ timers = {}
    /\ requestTokenRef = 2 /\ 2 \in InFlight
    /\ loads[2].sourceBounds = Some(ViewB)
    /\ pendingBoundsRef = Some(ViewB)

\* C10: a movement with auto-sync off starts no load and schedules no
\* timer; it sets the pending-search flag and stores the bounds of the
\* movement as the bounds of a manual search.
C10_MoveWithoutAutoSyncOnlyMarks ==
    [][ \A b \in Viewports :
           ~autoUpdate /\ HandleMapMove(b)
             => /\ UNCHANGED << requestTokenRef, fetchControllerRef, loads,
                                timers, moveDebounceRef, loadingStations >>
                /\ pendingSearch'
                /\ pendingBoundsRef' = Some(b) ]_vars

\* C10 witness: the map was moved with auto-sync off: a search is pending
\* for the new bounds, and still only the load of the mount was started.
C10_SearchPendingAfterMove ==
    /\ mounted /\ ~autoUpdate
    /\ pendingSearch /\ pendingBoundsRef = Some(ViewA)
    /\ timers = {} /\ moveDebounceRef = 0
    /\ requestTokenRef = 1

\* C11: with auto-sync off, "search this area" after a movement starts
\* exactly one load, a bounds load for the bounds of the latest movement,
\* whatever loads were started or left their await in between.
C11_SearchUsesLatestMove ==
    [][ \A b \in Viewports :
           lastMove # None /\ HandleSearchArea(Some(b))
             => LET t == requestTokenRef + 1
                IN /\ requestTokenRef' = t
                   /\ DOMAIN loads' = InFlight \cup {t}
                   /\ loads'[t].mode = "bounds"
                   /\ loads'[t].sourceBounds = lastMove ]_vars

\* A step of a handler or callback that calls loadStations.
CallsLoadStations ==
    \/ HandleRetry
    \/ \E tm \in timers : TimerFires(tm)
    \/ \E b \in Viewports : HandleSearchArea(Some(b))
    \/ ~autoUpdate /\ \E b \in Viewports : HandleToggleAutoUpdate(Some(b))

\* C12: the request token never decreases; a step that calls loadStations
\* increments it by exactly one and puts one new load, holding the new
\* token, in flight; no other step changes it; so every load in flight
\* holds a token of its own, at most the current one, and the current token
\* is the one of the load started last (the one of the current controller).
C12_TokenCountsLoads ==
    [][ /\ requestTokenRef' >= requestTokenRef
        /\ IF requestTokenRef' # requestTokenRef \/ CallsLoadStations
           THEN /\ requestTokenRef' = requestTokenRef + 1
                /\ requestTokenRef' \notin InFlight
                /\ DOMAIN loads' = InFlight \cup {requestTokenRef'}
           ELSE DOMAIN loads' \subseteq InFlight
        /\ \A t \in DOMAIN loads' : t <= requestTokenRef'
        /\ fetchControllerRef' = requestTokenRef' ]_vars

\* C12 witness: three loads are in flight, with the tokens 1, 2 and 3, and
\* the current token is the one of the last.
C12_ThreeTokensInFlight ==
    /\ requestTokenRef = 3 /\ InFlight = {1, 2, 3}
    /\ loads[1].aborted /\ loads[2].aborted /\ ~loads[3].aborted

\* A first-party record has both coordinates.
HasCoordinates(r) == r.latitude # None /\ r.longitude # None

\* The first-party records of the input that have both coordinates.
Placeable == SelectSeq(customInput, HasCoordinates)

\* C13: what mergeStationsWithOCM returns is the third-party list as it
\* was given, followed by one feature for each first-party record with both
\* coordinates, in the order of the records (each with the coordinates of
\* its record and marked first-party), and nothing else.
C13_MergeAppendsConvertedRecords ==
    mergedOutput # None =>
        LET m == mergedOutput[1]
            n == Len(ocmInput)
        IN /\ Len(m) = n + Len(Placeable)
           /\ \A i \in 1..n : m[i] = ocmInput[i]
           /\ \A k \in 1..Len(Placeable) :
                 /\ m[n + k].isCustomStation
                 /\ m[n + k].latitude = Placeable[k].latitude[1]
                 /\ m[n + k].longitude = Placeable[k].longitude[1]

\* C13 witness: two third-party features and two first-party records, the
\* first without coordinates, were merged into three features.
C13_MergedTwoAndOne ==
    /\ mergedOutput # None
    /\ ocmInput = << OcmB, OcmA >>
    /\ Len(customInput) = 2
    /\ ~HasCoordinates(customInput[1]) /\ HasCoordinates(customInput[2])
    /\ Len(mergedOutput[1]) = 3

\* C14: convertToOCMFormat gives a feature only for a record that has both
\* coordinates, and as many first-party features are in the merged list as
\* records have both coordinates, each with the coordinates of such a
\* record: a record without a latitude or a longitude is in no merged list.
C14_NoFeatureWithoutCoordinates ==
    /\ converted # None =>
          \A j \in DOMAIN customInput :
             converted[1][j] # None => HasCoordinates(customInput[j])
    /\ mergedOutput # None =>
          LET m == mergedOutput[1]
              custom == { i \in DOMAIN m : m[i].isCustomStation }
          IN /\ Cardinality(custom) = Len(Placeable)
             /\ \A i \in custom :
                   \E k \in 1..Len(Placeable) :
                      /\ m[i].id = NumericId(Placeable[k].id)
                      /\ m[i].latitude = Placeable[k].latitude[1]
                      /\ m[i].longitude = Placeable[k].longitude[1]

\* C14 witness: a record with a latitude and no longitude and a record
\* with both were converted and merged; one first-party feature came out.
C14_RecordWithoutLongitudeDropped ==
    /\ converted # None /\ mergedOutput # None
    /\ Len(customInput) = 2
    /\ customInput[1].latitude # None /\ customInput[1].longitude = None
    /\ HasCoordinates(customInput[2])
    /\ converted[1][1] = None /\ converted[1][2] # None
    /\ Len(mergedOutput[1]) = Len(ocmInput) + 1

\* C15: two records with the same persistent id are given the same numeric
\* id by convertToOCMFormat, whatever their other fields.
C15_SameIdSameNumericId ==
    converted # None =>
        \A i, j \in DOMAIN customInput :
           /\ customInput[i].id = customInput[j].id
           /\ converted[1][i] # None /\ converted[1][j] # None
           => converted[1][i][1].id = converted[1][j][1].id

\* C15 witness: two records with the same id and different latitudes were
\* both converted.
C15_TwoRecordsOneId ==
    /\ converted # None
    /\ Len(customInput) = 2
    /\ customInput[1].id = IdNegative /\ customInput[2].id = IdNegative
    /\ customInput[1].latitude # customInput[2].latitude
    /\ converted[1][1] # None /\ converted[1][2] # None

\* 31 * x, wrapped to 32 bits.
Times31(x) ==
    LET lo == 31 * x[2]
    IN << (31 * x[1] + lo \div Half) % Half, lo % Half >>

RECURSIVE RollingHash(_, _)
\* The rolling hash h := 31 * h + c, wrapped to 32 bits, from h over chars.
RollingHash(h, chars) ==
    IF chars = << >>
    THEN h
    ELSE RollingHash(AddCode32(Times31(h), Head(chars)), Tail(chars))

\* n - 1,000,000 for a number n (its high half is negative below 1,000,000).
LessOffset(n) ==
    LET lo == n[2] - 16960
    IN << n[1] - 15 - (IF lo < 0 THEN 1 ELSE 0), lo % Half >>

\* C16: the numeric id of a converted record is 1,000,000 plus the absolute
\* value of the rolling hash of its persistent id: it is at least
\* 1,000,000, and what it exceeds 1,000,000 by is the hash when the hash is
\* not negative and adds up with the hash to 2^32 (the hash being kept in
\* two's complement) when it is.
C16_NumericIdIsOffsetAbsHash ==
    converted # None =>
        \A j \in DOMAIN customInput :
           converted[1][j] # None =>
              LET h == RollingHash(<< 0, 0 >>, customInput[j].id)
                  a == LessOffset(converted[1][j][1].id)
              IN /\ a[1] >= 0
                 /\ IF h[1] >= 32768 THEN Plus(a, h) = << Half, 0 >> ELSE a = h

\* C16 witness: the record with the empty id got 1,000,000 and the record
\* whose hash is the least 32-bit value got 2^31 + 1,000,000.
C16_EmptyAndMinimumHashConverted ==
    /\ converted # None
    /\ Len(customInput) = 2
    /\ customInput[1].id = IdEmpty /\ customInput[2].id = IdMinimum
    /\ converted[1][1] = Some(Feature(<< 15, 16960 >>, TRUE, 0, 197000000))
    /\ converted[1][2] = Some(Feature(<< 32783, 16960 >>, TRUE, 412000000, 197000000))

\* C17: no two features of a list that mergeStationsWithOCM returns have
\* the same id.
C17_MergedIdsDistinct ==
    mergedOutput # None =>
        LET m == mergedOutput[1]
        IN \A i, j \in DOMAIN m : i # j => m[i].id # m[j].id

\* The Model that normalizeGeminiModel is to make of an object body.
ExpectedModel(body) ==
    [ brand |-> IF body \in { ObjBrandAndModel, ObjPaddedBrand } THEN Byd ELSE BrandArgument,
      model_name |-> IF body = ObjBrandAndModel THEN Sealion7 ELSE ModelArgument,
      source |-> "ai",
      isFeatured |-> FALSE ]

\* A response that is a JSON object between code fences resolved with the
\* normalized Model.
FencedObjectResolved ==
    \A body \in ObjectBodies :
       geminiResponse.text \in Fenced(body)
       => geminiResult[1] = Resolution(ExpectedModel(body))

\* The result is the rejection whose message has "parsing failed" and
\* "Raw text:".
RejectedAsUnparsable ==
    /\ geminiResult[1].kind = "rejected"
    /\ geminiResult[1].head = ParsingFailed
    /\ geminiResult[1].rawText # None

C19_LoadStartSetsLoadingClearsError ==
    [][ requestTokenRef' # requestTokenRef \/ CallsLoadStations
          => /\ loadingStations' = TRUE
             /\ error' = None
             /\ requestTokenRef' \in DOMAIN loads' ]_vars

\* C19 witness: the second load is a country load, which only Retry starts
\* and only with an error shown; it is at its await, loading is shown and
\* the error is gone.
C19_RetryClearedError ==
    /\ requestTokenRef = 2 /\ InFlight = {2}
    /\ loads[2].mode = "country"
    /\ loadingStations /\ error = None

\* C20: when the load with the current token leaves its await with both
\* lists fetched and a merged list that is not empty, that list is the
\* last-non-empty list, the scope of the load is the last query context and
\* the has-loaded flag is set; on a mounted page that list is the displayed
\* one and the last-updated time is that of this load.
C20_NonEmptyResultApplied ==
    [][ \A t \in InFlight :
          /\ Settled(t) /\ t = requestTokenRef
          /\ lastDone'.ocm = "ok" /\ ~lastDone'.empty
          => /\ Len(lastDone'.features) > 0
             /\ lastNonEmptyStationsRef' = Some(lastDone'.features)
             /\ lastContextRef' = NextContext(loads[t].sourceBounds)
             /\ hasLoadedOnceRef'
             /\ mounted => stations' = lastDone'.features /\ lastUpdated' = t ]_vars

\* C20 witness: the second load, a bounds load, has just left its await as
\* the current one with a list that holds a first-party feature, and that
\* list is displayed.
C20_SecondLoadDisplayed ==
    /\ mounted /\ requestTokenRef = 2
    /\ lastDone.ocm = "ok" /\ lastDone.current /\ ~lastDone.empty
    /\ \E i \in DOMAIN stations : stations[i].isCustomStation
    /\ \E i \in DOMAIN stations : ~stations[i].isCustomStation
    /\ stations = lastDone.features
    /\ lastNonEmptyStationsRef = Some(stations)
    /\ lastContextRef.mode = "bounds"
    /\ lastUpdated = 2 /\ hasLoadedOnceRef

\* C21: when the load with the current token leaves its await with both
\* lists fetched and not one feature in them while no non-empty list is
\* recorded, the displayed list is empty after the step, whether a load had
\* been applied before or not.
C21_EmptyResultOnNothingShowsEmpty ==
    [][ Settles /\ lastDone'.ocm = "ok" /\ lastDone'.current /\ lastDone'.empty
            /\ lastNonEmptyStationsRef = None
          => stations' = << >> /\ lastNonEmptyStationsRef' = None ]_vars

\* C21 witness: on a mounted page a load was applied with zero features
\* after an earlier load had been applied, and nothing is recorded or
\* displayed.
C21_SecondEmptyResultApplied ==
    /\ mounted
    /\ lastDone.ocm = "ok" /\ lastDone.current /\ lastDone.empty
    /\ lastDone.loadedBefore
    /\ hasLoadedOnceRef
    /\ lastNonEmptyStationsRef = None
    /\ stations = << >>

\* C22: a step in which a load that is no longer the current one leaves
\* its await because its third-party fetch rejected, with an abort error or
\* with another one, changes neither the error message nor the loading
\* flag.
C22_SupersededFailureIsSilent ==
    [][ \A t \in InFlight :
           Settled(t) /\ t # requestTokenRef /\ lastDone'.ocm = "failed"
              => UNCHANGED << error, loadingStations >> ]_vars

\* C22 witness: the third-party fetch of the first load has just rejected
\* while the second load is at its await; loading is still shown and there
\* is no error message.
C22_FirstLoadFailedUnderSecond ==
    /\ mounted
    /\ lastDone.ocm = "failed" /\ ~lastDone.current
    /\ requestTokenRef = 2 /\ InFlight = {2}
    /\ loadingStations /\ error = None

\* C23: a step of handleSearchArea with bounds to use (the tracked ones,
\* else those of the map) starts a bounds load for them in that very step,
\* clears the pending-search flag and schedules no timer; and were there
\* neither tracked bounds nor a map, handleSearchArea could start no load
\* and could not change the pending-search flag.
C23_SearchStartsLoadAtOnce ==
    [][ /\ \A b \in Viewports :
              HandleSearchArea(Some(b))
              => LET t == requestTokenRef + 1
                 IN /\ requestTokenRef' = t
                    /\ t \in DOMAIN loads'
                    /\ loads'[t].mode = "bounds"
                    /\ loads'[t].sourceBounds =
                          (IF pendingBoundsRef # None THEN pendingBoundsRef ELSE Some(b))
                    /\ pendingSearch' = FALSE
                    /\ UNCHANGED << timers, moveDebounceRef >>
        /\ pendingBoundsRef = None
              => ~ENABLED (/\ HandleSearchArea(None)
                           /\ \/ requestTokenRef' # requestTokenRef
                              \/ loads' # loads
                              \/ pendingSearch' # pendingSearch) ]_vars

\* C23 witness: with auto-sync off and no timer ever scheduled, the map was
\* moved to viewport B and the load for B is at its await with the
\* pending-search flag cleared.
C23_SearchedAfterMove ==
    /\ mounted /\ ~autoUpdate
    /\ lastMove = Some(ViewB)
    /\ moveDebounceRef = 0 /\ timers = {}
    /\ ~pendingSearch
    /\ requestTokenRef = 2 /\ 2 \in InFlight
    /\ loads[2].mode = "bounds" /\ loads[2].sourceBounds = Some(ViewB)

\* C24: a step in which a "locate me" request fails (the error callback of
\* a position request) or finds no geolocation support gives exactly one
\* more notification, the error message of that case, makes no position
\* request, and leaves the map state, the displayed list, the loads in
\* flight, the request token, the controller, the loading flag and the
\* error message as they were.
C24_LocateFailureOnlyNotifies ==
    [][ /\ PositionFailed => toasts' = Append(toasts, LocationUnavailable)
        /\ HandleLocate /\ ~geolocation
              => toasts' = Append(toasts, GeolocationUnsupported)
        /\ PositionFailed \/ (HandleLocate /\ ~geolocation)
              => /\ positionRequests' = positionRequests
                 /\ pendingPositions' <= pendingPositions
                 /\ UNCHANGED << mapState, stations, lastNonEmptyStationsRef, loads,
                                 requestTokenRef, fetchControllerRef,
                                 loadingStations, error, timers >> ]_vars

\* C24 witness: the map was moved to the second viewport, one position
\* request was made and failed while a load was awaiting: one notification,
\* the map state is still that of the movement.
C24_LocateFailedAfterMove ==
    /\ mounted /\ geolocation
    /\ positionRequests = 1 /\ pendingPositions = 0
    /\ toasts = << LocationUnavailable >>
    /\ mapState = [center |-> CenterOf(ViewB), zoom |-> ZoomOf(ViewB)]
    /\ loadingStations /\ requestTokenRef \in InFlight

\* The first-party and the third-party features of a list, in its order.
FirstParty(list) == SelectSeq(list, LAMBDA f : f.isCustomStation)
ThirdParty(list) == SelectSeq(list, LAMBDA f : ~f.isCustomStation)

\* C25: a render with a search term that is empty (or blank) makes the list
\* view the first-party features of the displayed list, in their order
\* there, followed by its third-party features, in their order there; the
\* displayed list is as it was.
C25_ListViewIsStableCustomFirst ==
    [][ Render /\ Trim(searchTerm) = << >>
          => /\ visibleStations' = FirstParty(stations) \o ThirdParty(stations)
             /\ Len(visibleStations') = Len(stations)
             /\ stations' = stations ]_vars

\* C25 witness: two third-party features and behind them two first-party
\* features with different ids are displayed, and the list view, rendered
\* with an empty search term, begins with the two first-party ones.
C25_TwoAndTwoRendered ==
    /\ searchTerm = << >> /\ Len(stations) = 4
    /\ ~stations[1].isCustomStation /\ ~stations[2].isCustomStation
    /\ stations[3].isCustomStation /\ stations[4].isCustomStation
    /\ stations[3].id # stations[4].id
    /\ visibleStations = << stations[3], stations[4], stations[1], stations[2] >>

\* The markers of the features of the displayed list that the list view
\* holds, in the order of the displayed list.
FetchOrderMarkers ==
    LET shown == SelectSeq(stations', LAMBDA f :
                     \E i \in DOMAIN visibleStations' : visibleStations'[i] = f)
    IN [i \in DOMAIN shown |-> Marker(shown[i])]

\* C26: a render adds the markers in the order of the displayed list
\* (third-party features, then first-party ones), and registers for each id
\* the marker that this order registers.
C26_MarkersInFetchOrder ==
    [][ Render => /\ clusterLayers' = FetchOrderMarkers
                  /\ \A id \in DOMAIN markersRef' :
                        clusterLayers'[markersRef'[id]]
                            = FetchOrderMarkers[Registered(FetchOrderMarkers)[id]] ]_vars

\* C27: the debounce timer starts no load while auto-sync is off: every
\* step in which a timer fires is taken with auto-sync on.
C27_NoTimerLoadWhileAutoSyncOff ==
    [][ (\E tm \in timers : TimerFires(tm)) => autoUpdate ]_vars

\* C28: on a mounted page the loading flag is true exactly when the load
\* started last is at its await (so it stays true when a load started
\* earlier leaves its await), and loading that is shown always ends, unless
\* the page is torn down first.
C28_LoadingWhileLatestLoadAwaits ==
    /\ [](mounted => (loadingStations <=> requestTokenRef \in InFlight))
    /\ ((mounted /\ loadingStations) ~> (~loadingStations \/ ~mounted))

\* C28 witness: a load started earlier has just resolved while the load
\* started last is at its await, and loading is still shown.
C28_StillLoadingAfterStaleResult ==
    /\ mounted /\ loadingStations
    /\ lastDone.ocm = "ok" /\ ~lastDone.current
    /\ requestTokenRef = 2 /\ InFlight = {2}

\* C29: whenever an error message is set, the loading flag is false and no
\* load with a signal that is not aborted is in flight; and the error
\* message becomes a new message only in a step in which the load started
\* last leaves its await.
C29_ErrorMeansNoLiveLoad ==
    [][ /\ error' # None => ~loadingStations' /\ Live' = {}
        /\ error' # None /\ error' # error => Settled(requestTokenRef) ]_vars

\* C29 witness: the third-party fetch of the second load, the one started
\* last, has just failed; its message is shown, loading is not, and no load
\* is left in flight.
C29_SecondLoadFailed ==
    /\ mounted
    /\ lastDone.ocm = "failed" /\ lastDone.current
    /\ requestTokenRef = 2 /\ InFlight = {}
    /\ error # None /\ ~loadingStations

\* C30: after every step the displayed list is the last-non-empty list when
\* one is recorded and empty otherwise; a recorded last-non-empty list is
\* never reset to none, and it changes only in a step in which the load with
\* the current token leaves its await with a non-empty result, which it then
\* holds.  The first part fails once the page is torn down: teardown aborts
\* the load without advancing the token, so the load still records its list
\* (line 513) while setStations no longer has a page to act on.
C30_DisplayedIsLastNonEmpty ==
    [][ /\ stations' = (IF lastNonEmptyStationsRef' # None
                        THEN lastNonEmptyStationsRef'[1] ELSE << >>)
        /\ lastNonEmptyStationsRef # None => lastNonEmptyStationsRef' # None
        /\ lastNonEmptyStationsRef' # lastNonEmptyStationsRef
              => /\ Settled(requestTokenRef)
                 /\ lastDone'.ocm = "ok" /\ ~lastDone'.empty
                 /\ lastNonEmptyStationsRef' = Some(lastDone'.features) ]_vars

====
